---- MODULE Spec2Model ----
(***************************************************************************)
(* The multiplayer session server of the repository: the event-driven      *)
(* admission queue (manageQueue), the player table and the socket handlers *)
(* connection / spawn / move / pingSync / disconnect.                      *)
(*                                                                         *)
(* Every action is one complete handler invocation: node runs a handler to *)
(* completion before the next event is dispatched.                         *)
(***************************************************************************)
EXTENDS Integers, Sequences, FiniteSets, TLC

\* Number of connections the transport accepts over the server's lifetime.
\* socket.io ids are fresh per connection and never reused; the model names
\* the k-th accepted connection k.
NumConns == 3

\* The joinQueue server lets a session be granted entry any number of times;
\* the model stops counting a session's grantEntry events here.
MaxGrants == 2

\* const MAX_PLAYERS = 20 in the source; scaled down so that the table can
\* fill with NumConns connections.
MAX_PLAYERS == 1

ConnId == 1..NumConns

\* Samples of the three Math.random() draws of the spawn handler:
\* (Math.random() - 0.5) * 40 for x and z, and the 24-bit hex color.
RandomDraws ==
    { [x |-> -7, z |-> 3,  color |-> "#1a2b3c"],
      [x |-> 12, z |-> -4, color |-> "#c0ffee"] }

\* A position of the shape of interface Vector3: an object with x, y and z.
IsVec3(v) == DOMAIN v = {"x", "y", "z"}

\* Poses a client sends with move: (position, rotation, animation).
\* Rotations are radians * 100 (157 stands for 1.57).
MovePoses ==
    { [position |-> [x |-> 1, y |-> 5, z |-> 1], rotation |-> 0,   animation |-> "Run"],
      [position |-> [x |-> 5, y |-> 5, z |-> 5], rotation |-> 157, animation |-> "Run"] }

\* A move whose first argument is no Vector3 (its z is missing).
MalformedPoses ==
    { [position |-> [x |-> 5, y |-> 5], rotation |-> 157, animation |-> "Run"] }

\* The argument of pingSync: an ack callback, or anything else.
Callbacks == {"function", "undefined"}

\* The SpawnPoint of a process that found no usable spawn_config.json.
DefaultSpawn == [x |-> 0, y |-> 5, z |-> 0]

\* Vec3 values an editor sends with updateSpawnPoint.
SpawnEdits == {[x |-> 7, y |-> 5, z |-> -2], [x |-> -2, y |-> 5, z |-> 7]}

\* spawn_config.json before the first set: there is no file.
NoFile == [kind |-> "absent", fields |-> <<>>]

VARIABLES
    sockets,          \* io.sockets.sockets: ids of the live connections
    accepted,         \* number of connections accepted so far (ids 1..accepted)
    players,          \* const players: Record<string, PlayerState>
    loginQueue,       \* const loginQueue: string[]
    sent,             \* events emitted by the last handler, in emission order
    last,             \* the last handler that ran: [op, id, arg, ran]
    pre,              \* players and loginQueue at entry of the last handler
    loginAllowed,     \* ids a loginAllowed event has been emitted to
    queueUpdate,      \* per id: argument of the last queueUpdate emitted to it (0: none)
    myId,             \* per id: const [myId, setMyId] of its queue-based App (0: null)
    running,          \* the node process is alive (no uncaught exception yet)
    waitingQueue,     \* const waitingQueue: string[]      (joinQueue server)
    isProcessingQueue,\* let isProcessingQueue = false      (joinQueue and timer servers)
    timers,           \* number of active setInterval timers  (timer server)
    grantEntry,       \* per id: number of grantEntry events emitted to it
    spawnPoint,       \* Spawn Store: the SpawnPoint held in memory
    spawnFile         \* Spawn Store: spawn_config.json, [kind, fields]

\* State of the server variants that the event-driven server does not have.
\* State of the Spawn Store.
spawnStore == <<spawnPoint, spawnFile>>

otherServers == <<running, waitingQueue, isProcessingQueue, timers, grantEntry, spawnStore>>

vars == <<sockets, accepted, players, loginQueue, sent, last, pre,
          loginAllowed, queueUpdate, myId, running, waitingQueue, isProcessingQueue,
          timers, grantEntry, spawnPoint, spawnFile>>

----------------------------------------------------------------------------
\* Helpers

\* The elements of a set of ids in increasing order.
RECURSIVE SetToSeq(_)
SetToSeq(S) ==
    IF S = {} THEN <<>>
    ELSE LET m == CHOOSE x \in S : \A y \in S : x <= y
         IN <<m>> \o SetToSeq(S \ {m})

\* A sequence without its element at index i (Array.prototype.splice(i, 1)).
Splice(q, i) == [j \in 1..(Len(q) - 1) |-> IF j < i THEN q[j] ELSE q[j + 1]]

\* Array.prototype.indexOf, 1-based; 0 when absent (the source's -1).
IndexOf(q, c) ==
    IF \E i \in 1..Len(q) : q[i] = c
    THEN CHOOSE i \in 1..Len(q) : q[i] = c /\ \A j \in 1..(i - 1) : q[j] # c
    ELSE 0

Range(q) == {q[i] : i \in 1..Len(q)}

Event(to, name, arg) == [to |-> to, name |-> name, arg |-> arg]

\* socket.emit(name, arg) on the socket looked up by id: nothing when the
\* lookup io.sockets.sockets.get(id) finds no socket.
Emit(socks, to, name, arg) ==
    IF to \in socks THEN <<Event(to, name, arg)>> ELSE <<>>

\* io.emit in place of socket.broadcast.emit: the sender is not skipped.
BroadcastWithSender(socks, from, name, arg) ==
    LET rcpt == SetToSeq(socks)
    IN [i \in 1..Len(rcpt) |-> Event(rcpt[i], name, arg)]

\* socket.broadcast.emit(name, arg): every live connection but the sender.
BroadcastExcept(socks, from, name, arg) ==
    LET rcpt == SetToSeq(socks \ {from})
    IN [i \in 1..Len(rcpt) |-> Event(rcpt[i], name, arg)]

\* io.emit(name, arg): every live connection.
BroadcastAll(socks, name, arg) ==
    LET rcpt == SetToSeq(socks)
    IN [i \in 1..Len(rcpt) |-> Event(rcpt[i], name, arg)]

----------------------------------------------------------------------------
\* manageQueue

\* The loop with loginQueue.pop() in place of loginQueue.shift().
RECURSIVE AdmitLoopFromTail(_, _, _, _)
AdmitLoopFromTail(q, i, slotsAvailable, socks) ==
    IF i < slotsAvailable /\ Len(q) # 0
    THEN LET socketId == q[Len(q)]
             rest == AdmitLoopFromTail(SubSeq(q, 1, Len(q) - 1), i + 1,
                                       slotsAvailable, socks)
         IN [queue |-> rest.queue,
             sent  |-> Emit(socks, socketId, "loginAllowed", 0) \o rest.sent]
    ELSE [queue |-> q, sent |-> <<>>]

\* The for loop of manageQueue without its bound: it shifts until the queue
\* is empty.
RECURSIVE AdmitLoopUnbounded(_, _, _, _)
AdmitLoopUnbounded(q, i, slotsAvailable, socks) ==
    IF Len(q) # 0
    THEN LET socketId == Head(q)
             rest == AdmitLoopUnbounded(Tail(q), i + 1, slotsAvailable, socks)
         IN [queue |-> rest.queue,
             sent  |-> Emit(socks, socketId, "loginAllowed", 0) \o rest.sent]
    ELSE [queue |-> q, sent |-> <<>>]

\* The for loop of manageQueue: iteration i of slotsAvailable.
RECURSIVE AdmitLoop(_, _, _, _)
AdmitLoop(q, i, slotsAvailable, socks) ==
    IF i < slotsAvailable /\ Len(q) # 0
    THEN LET socketId == Head(q)
             rest == AdmitLoop(Tail(q), i + 1, slotsAvailable, socks)
         IN [queue |-> rest.queue,
             sent  |-> Emit(socks, socketId, "loginAllowed", 0) \o rest.sent]
    ELSE [queue |-> q, sent |-> <<>>]

\* The notification with the 0-based index: s.emit('queueUpdate', index).
RECURSIVE NotifyPositionsZeroBased(_, _, _)
NotifyPositionsZeroBased(q, index, socks) ==
    IF index > Len(q) THEN <<>>
    ELSE Emit(socks, q[index], "queueUpdate", index - 1)
         \o NotifyPositionsZeroBased(q, index + 1, socks)

\* loginQueue.forEach((sid, index) => s.emit('queueUpdate', index + 1))
RECURSIVE NotifyPositions(_, _, _)
NotifyPositions(q, index, socks) ==
    IF index > Len(q) THEN <<>>
    ELSE Emit(socks, q[index], "queueUpdate", index)
         \o NotifyPositions(q, index + 1, socks)

\* manageQueue admitting one session too many: currentCount <= MAX_PLAYERS.
ManageQueueOffByOne(pl, q, socks) ==
    LET currentCount == Cardinality(DOMAIN pl)
    IN IF currentCount <= MAX_PLAYERS /\ Len(q) > 0
       THEN LET slotsAvailable == MAX_PLAYERS - currentCount + 1
                drained == AdmitLoop(q, 0, slotsAvailable, socks)
            IN [queue |-> drained.queue,
                sent  |-> drained.sent \o NotifyPositions(drained.queue, 1, socks),
                ran   |-> TRUE]
       ELSE [queue |-> q, sent |-> <<>>, ran |-> FALSE]

ManageQueue(pl, q, socks) ==
    LET currentCount == Cardinality(DOMAIN pl)
    IN IF currentCount < MAX_PLAYERS /\ Len(q) > 0
       THEN LET slotsAvailable == MAX_PLAYERS - currentCount
                drained == AdmitLoop(q, 0, slotsAvailable, socks)
            IN [queue |-> drained.queue,
                sent  |-> drained.sent \o NotifyPositions(drained.queue, 1, socks),
                ran   |-> TRUE]
       ELSE [queue |-> q, sent |-> <<>>, ran |-> FALSE]

----------------------------------------------------------------------------
\* What the emitted events leave at the clients

AllowedBy(evs) == {evs[i].to : i \in {j \in 1..Len(evs) : evs[j].name = "loginAllowed"}}

\* The argument of the last queueUpdate in evs addressed to c, or old.
LastQueueUpdate(evs, c, old) ==
    LET idx == {i \in 1..Len(evs) : evs[i].name = "queueUpdate" /\ evs[i].to = c}
    IN IF idx = {} THEN old
       ELSE evs[CHOOSE i \in idx : \A j \in idx : j <= i].arg

\* onNewPlayer of the queue-based App: if (player.id === socket.id)
\* setMyId(player.id), for every newPlayer in evs delivered to c.
MyIdBy(evs, c, old) ==
    IF \E i \in 1..Len(evs) :
           evs[i].to = c /\ evs[i].name = "newPlayer" /\ evs[i].arg.id = c
    THEN c ELSE old

\* The argument recorded for a handler that takes none.
NoArg == [none |-> TRUE]

\* The bookkeeping every handler shares: the emitted events, and the entry state.
Observe(op, c, arg, evs, ran) ==
    /\ last' = [op |-> op, id |-> c, arg |-> arg, ran |-> ran]
    /\ sent' = evs
    /\ pre' = [players |-> players, loginQueue |-> loginQueue,
               waitingQueue |-> waitingQueue]
    /\ loginAllowed' = loginAllowed \cup AllowedBy(evs)
    /\ queueUpdate' = [k \in ConnId |-> LastQueueUpdate(evs, k, queueUpdate[k])]
    /\ myId' = [k \in ConnId |-> MyIdBy(evs, k, myId[k])]

\* The bookkeeping of a handler of the event-driven server.
Record(op, c, arg, evs, ran) ==
    /\ Observe(op, c, arg, evs, ran)
    /\ UNCHANGED otherServers

----------------------------------------------------------------------------
\* Handlers

Init ==
    /\ sockets = {}
    /\ accepted = 0
    /\ players = <<>>
    /\ loginQueue = <<>>
    /\ sent = <<>>
    /\ last = [op |-> "none", id |-> 0, arg |-> NoArg, ran |-> FALSE]
    /\ pre = [players |-> <<>>, loginQueue |-> <<>>, waitingQueue |-> <<>>]
    /\ loginAllowed = {}
    /\ queueUpdate = [k \in ConnId |-> 0]
    /\ myId = [k \in ConnId |-> 0]
    /\ running = TRUE
    /\ waitingQueue = <<>>
    /\ isProcessingQueue = FALSE
    /\ timers = 0
    /\ grantEntry = [k \in ConnId |-> 0]
    /\ spawnPoint = DefaultSpawn
    /\ spawnFile = NoFile

\* The connection handler running manageQueue before it tells the newcomer
\* its position.
ConnectionAdmitFirst(c) ==
    /\ c = accepted + 1
    /\ LET socks == sockets \cup {c}
           q1 == Append(loginQueue, c)
           mq == ManageQueue(players, q1, socks)
       IN /\ sockets' = socks
          /\ accepted' = c
          /\ loginQueue' = mq.queue
          /\ Record("connection", c, NoArg,
                    mq.sent \o Emit(socks, c, "queueUpdate", Len(q1)), mq.ran)
    /\ UNCHANGED players

\* io.on('connection', (socket) => ...)
Connection(c) ==
    /\ c = accepted + 1
    /\ LET socks == sockets \cup {c}
           q1 == Append(loginQueue, c)
           mq == ManageQueue(players, q1, socks)
       IN /\ sockets' = socks
          /\ accepted' = c
          /\ loginQueue' = mq.queue
          /\ Record("connection", c, NoArg,
                    Emit(socks, c, "queueUpdate", Len(q1)) \o mq.sent, mq.ran)
    /\ UNCHANGED players

NewPlayer(c, randomX, randomZ, color) ==
    [id |-> c,
     position |-> [x |-> randomX, y |-> 5, z |-> randomZ],
     rotation |-> 0,
     animation |-> "Idle",
     color |-> color]

\* The two emits with the order swapped and the newcomer not skipped.
SpawnEventsToAll(socks, c, pl) ==
    BroadcastAll(socks, "newPlayer", pl[c]) \o Emit(socks, c, "currentPlayers", pl)

\* socket.emit('currentPlayers', players);
\* socket.broadcast.emit('newPlayer', players[socket.id]);
SpawnEvents(socks, c, pl) ==
    Emit(socks, c, "currentPlayers", pl) \o BroadcastExcept(socks, c, "newPlayer", pl[c])

\* socket.on('spawn', () => ...)
Spawn(c, randomX, randomZ, color) ==
    /\ c \in sockets
    /\ LET pl == [k \in DOMAIN players \cup {c} |->
                    IF k = c THEN NewPlayer(c, randomX, randomZ, color)
                    ELSE players[k]]
           mq == ManageQueue(pl, loginQueue, sockets)
       IN /\ players' = pl
          /\ loginQueue' = mq.queue
          /\ Record("spawn", c, NoArg, SpawnEvents(sockets, c, pl) \o mq.sent, mq.ran)
    /\ UNCHANGED <<sockets, accepted>>

\* The move handler adding the rotation it is sent to the one it holds.
MoveAdditive(c, pose) ==
    /\ c \in sockets
    /\ IF c \in DOMAIN players
       THEN LET pl == [players EXCEPT ![c].position = pose.position,
                                      ![c].rotation = @ + pose.rotation,
                                      ![c].animation = pose.animation]
            IN /\ players' = pl
               /\ Record("move", c, pose,
                         BroadcastExcept(sockets, c, "playerMoved", pl[c]), FALSE)
       ELSE /\ players' = players
            /\ Record("move", c, pose, <<>>, FALSE)
    /\ UNCHANGED <<sockets, accepted, loginQueue>>

\* The move handler without its if (players[socket.id]) guard, writing the
\* pose into a record it creates when there is none.
MoveUnguarded(c, pose) ==
    /\ c \in sockets
    /\ LET pl == [k \in DOMAIN players \cup {c} |->
                    [id |-> c,
                     position |-> pose.position,
                     rotation |-> pose.rotation,
                     animation |-> pose.animation,
                     color |-> IF k \in DOMAIN players THEN players[k].color
                               ELSE "#000000"]]
       IN /\ players' = [k \in DOMAIN pl |-> IF k = c THEN pl[k] ELSE players[k]]
          /\ Record("move", c, pose,
                    BroadcastExcept(sockets, c, "playerMoved", pl[c]), FALSE)
    /\ UNCHANGED <<sockets, accepted, loginQueue>>

\* The move handler replacing the record by a fresh object built from its
\* arguments: the color of the spawn is lost.
MoveReplaceRecord(c, pose) ==
    /\ c \in sockets
    /\ IF c \in DOMAIN players
       THEN LET pl == [players EXCEPT ![c] = [id |-> c,
                                              position |-> pose.position,
                                              rotation |-> pose.rotation,
                                              animation |-> pose.animation,
                                              color |-> "#ffffff"]]
            IN /\ players' = pl
               /\ Record("move", c, pose,
                         BroadcastExcept(sockets, c, "playerMoved", pl[c]), FALSE)
       ELSE /\ players' = players
            /\ Record("move", c, pose, <<>>, FALSE)
    /\ UNCHANGED <<sockets, accepted, loginQueue>>

\* socket.on('move', (position, rotation, animation) => ...)
Move(c, pose) ==
    /\ c \in sockets
    /\ IF c \in DOMAIN players
       THEN LET pl == [players EXCEPT ![c].position = pose.position,
                                      ![c].rotation = pose.rotation,
                                      ![c].animation = pose.animation]
            IN /\ players' = pl
               /\ Record("move", c, pose,
                         BroadcastExcept(sockets, c, "playerMoved", pl[c]), FALSE)
       ELSE /\ players' = players
            /\ Record("move", c, pose, <<>>, FALSE)
    /\ UNCHANGED <<sockets, accepted, loginQueue>>

\* The pingSync handler with its typeof test inverted: the ack is never called.
PingSyncNoAck(c, callback) ==
    /\ c \in sockets
    /\ Record("pingSync", c, [callback |-> callback], <<>>, FALSE)
    /\ UNCHANGED <<sockets, accepted, players, loginQueue>>

\* socket.on('pingSync', (callback) => ...)
PingSync(c, callback) ==
    /\ c \in sockets
    /\ Record("pingSync", c, [callback |-> callback],
              IF callback = "function" THEN <<Event(c, "ack", 0)>> ELSE <<>>, FALSE)
    /\ UNCHANGED <<sockets, accepted, players, loginQueue>>

\* A disconnect that forgets the table entry.
KeepPlayer(pl, c) == pl

\* delete players[socket.id]
DeletePlayer(pl, c) == [k \in DOMAIN pl \ {c} |-> pl[k]]

\* The disconnect handler without its closing manageQueue() call.
DisconnectNoManageQueue(c) ==
    /\ c \in sockets
    /\ LET socks == sockets \ {c}
           qIndex == IndexOf(loginQueue, c)
           q1 == IF qIndex # 0 THEN Splice(loginQueue, qIndex) ELSE loginQueue
           present == c \in DOMAIN players
           pl == IF present THEN DeletePlayer(players, c) ELSE players
           gone == IF present THEN BroadcastAll(socks, "playerDisconnected", c)
                   ELSE <<>>
       IN /\ sockets' = socks
          /\ players' = pl
          /\ loginQueue' = q1
          /\ Record("disconnect", c, NoArg, gone, FALSE)
    /\ UNCHANGED accepted

\* The disconnect handler without the splice of lines 113-116.
DisconnectKeepQueued(c) ==
    /\ c \in sockets
    /\ LET socks == sockets \ {c}
           present == c \in DOMAIN players
           pl == IF present THEN DeletePlayer(players, c) ELSE players
           gone == IF present THEN BroadcastAll(socks, "playerDisconnected", c)
                   ELSE <<>>
           mq == ManageQueue(pl, loginQueue, socks)
       IN /\ sockets' = socks
          /\ players' = pl
          /\ loginQueue' = mq.queue
          /\ Record("disconnect", c, NoArg, gone \o mq.sent, mq.ran)
    /\ UNCHANGED accepted

\* socket.on('disconnect', () => ...).  socket.io removes the socket from
\* io.sockets.sockets before the handler runs.
Disconnect(c) ==
    /\ c \in sockets
    /\ LET socks == sockets \ {c}
           qIndex == IndexOf(loginQueue, c)
           q1 == IF qIndex # 0 THEN Splice(loginQueue, qIndex) ELSE loginQueue
           present == c \in DOMAIN players
           pl == IF present THEN DeletePlayer(players, c) ELSE players
           gone == IF present THEN BroadcastAll(socks, "playerDisconnected", c)
                   ELSE <<>>
           mq == ManageQueue(pl, q1, socks)
       IN /\ sockets' = socks
          /\ players' = pl
          /\ loginQueue' = mq.queue
          /\ Record("disconnect", c, NoArg, gone \o mq.sent, mq.ran)
    /\ UNCHANGED accepted

Next ==
    \E c \in ConnId :
        \/ Connection(c)
        \/ \E draw \in RandomDraws : Spawn(c, draw.x, draw.z, draw.color)
        \/ \E pose \in MovePoses : Move(c, pose)
        \/ \E callback \in Callbacks : PingSync(c, callback)
        \/ Disconnect(c)

Spec == Init /\ [][Next]_vars

\* The same server with clients that also send moves of a wrong shape.
NextMalformed ==
    \/ Next
    \/ \E c \in ConnId, pose \in MalformedPoses : Move(c, pose)

SpecMalformed == Init /\ [][NextMalformed]_vars

----------------------------------------------------------------------------
\* The server of part_016: the same handlers, but pingSync calls its
\* argument without looking at it.

\* socket.on('pingSync', (callback) => { callback(); }).  Calling something
\* that is no function throws a TypeError out of the handler; nothing
\* catches it, so the node process ends and with it every connection.
PingSyncUnchecked(c, callback) ==
    /\ c \in sockets
    /\ IF callback = "function"
       THEN /\ Record("pingSync", c, [callback |-> callback], <<Event(c, "ack", 0)>>, FALSE)
            /\ UNCHANGED sockets
       ELSE /\ Observe("pingSync", c, [callback |-> callback], <<>>, FALSE)
            /\ running' = FALSE
            /\ sockets' = {}
            /\ UNCHANGED <<waitingQueue, isProcessingQueue, timers, grantEntry, spawnStore>>
    /\ UNCHANGED <<accepted, players, loginQueue>>

NextUnchecked ==
    \E c \in ConnId :
        \/ running /\ Connection(c)
        \/ running /\ \E draw \in RandomDraws : Spawn(c, draw.x, draw.z, draw.color)
        \/ running /\ \E pose \in MovePoses : Move(c, pose)
        \/ running /\ \E callback \in Callbacks : PingSyncUnchecked(c, callback)
        \/ running /\ Disconnect(c)

SpecUnchecked == Init /\ [][NextUnchecked]_vars

----------------------------------------------------------------------------
\* The joinQueue server (types.ts): sessions enter waitingQueue on request,
\* processQueue grants entry to one session and then sleeps 1.5 s.  Only the
\* handlers that touch waitingQueue are modelled; requestGameStart and move
\* work on players alone.

GrantsBy(evs, c) ==
    Cardinality({j \in 1..Len(evs) : evs[j].name = "grantEntry" /\ evs[j].to = c})

\* processQueue up to its await: the part that runs inside the caller.
ProcessQueue(q, busy, socks) ==
    IF busy \/ Len(q) = 0
    THEN [queue |-> q, busy |-> busy, sent |-> <<>>]
    ELSE LET socketId == Head(q)
             rest == Tail(q)
         IN [queue |-> rest,
             busy  |-> TRUE,
             sent  |-> Emit(socks, socketId, "grantEntry", 0)
                       \o NotifyPositions(rest, 1, socks)]

\* What a handler of the joinQueue server leaves behind.
ObserveJoin(op, c, arg, evs) ==
    /\ last' = [op |-> op, id |-> c, arg |-> arg, ran |-> FALSE]
    /\ sent' = evs
    /\ pre' = [players |-> players, loginQueue |-> loginQueue,
               waitingQueue |-> waitingQueue]
    /\ UNCHANGED <<loginAllowed, queueUpdate, myId>>
    /\ grantEntry' = [k \in ConnId |->
                        IF grantEntry[k] + GrantsBy(evs, k) > MaxGrants THEN MaxGrants
                        ELSE grantEntry[k] + GrantsBy(evs, k)]
    /\ UNCHANGED <<running, loginQueue, timers, spawnStore>>

\* io.on('connection', (socket) => ...): nothing but the registrations.
Accept(c) ==
    /\ c = accepted + 1
    /\ sockets' = sockets \cup {c}
    /\ accepted' = c
    /\ ObserveJoin("connection", c, NoArg, <<>>)
    /\ UNCHANGED <<players, waitingQueue, isProcessingQueue>>

\* The joinQueue handler without its includes test.
JoinQueueNoCheck(c) ==
    /\ c \in sockets
    /\ grantEntry[c] < MaxGrants
    /\ LET q1 == Append(waitingQueue, c)
           pq == ProcessQueue(q1, isProcessingQueue, sockets)
       IN /\ waitingQueue' = pq.queue
          /\ isProcessingQueue' = pq.busy
          /\ ObserveJoin("joinQueue", c, NoArg,
                         Emit(sockets, c, "queueUpdate", Len(q1)) \o pq.sent)
    /\ UNCHANGED <<sockets, accepted, players>>

\* socket.on('joinQueue', () => ...)
JoinQueue(c) ==
    /\ c \in sockets
    /\ grantEntry[c] < MaxGrants
    /\ IF c \notin Range(waitingQueue)
       THEN LET q1 == Append(waitingQueue, c)
                pq == ProcessQueue(q1, isProcessingQueue, sockets)
            IN /\ waitingQueue' = pq.queue
               /\ isProcessingQueue' = pq.busy
               /\ ObserveJoin("joinQueue", c, NoArg,
                              Emit(sockets, c, "queueUpdate", Len(q1)) \o pq.sent)
       ELSE /\ ObserveJoin("joinQueue", c, NoArg, <<>>)
            /\ UNCHANGED <<waitingQueue, isProcessingQueue>>
    /\ UNCHANGED <<sockets, accepted, players>>

\* socket.on('leaveQueue', () => ...)
LeaveQueue(c) ==
    /\ c \in sockets
    /\ LET idx == IndexOf(waitingQueue, c)
       IN IF idx # 0
          THEN LET q1 == Splice(waitingQueue, idx)
               IN /\ waitingQueue' = q1
                  /\ ObserveJoin("leaveQueue", c, NoArg, NotifyPositions(q1, 1, sockets))
          ELSE /\ waitingQueue' = waitingQueue
               /\ ObserveJoin("leaveQueue", c, NoArg, <<>>)
    /\ UNCHANGED <<sockets, accepted, players, isProcessingQueue>>

\* socket.on('disconnect', () => ...) of the joinQueue server.
DisconnectJoin(c) ==
    /\ c \in sockets
    /\ LET socks == sockets \ {c}
           idx == IndexOf(waitingQueue, c)
       IN /\ sockets' = socks
          /\ players' = DeletePlayer(players, c)
          /\ waitingQueue' = IF idx # 0 THEN Splice(waitingQueue, idx) ELSE waitingQueue
          /\ ObserveJoin("disconnect", c, NoArg, BroadcastAll(socks, "playerDisconnected", c))
    /\ UNCHANGED <<accepted, isProcessingQueue>>

\* processQueue after its await: the 1.5 s timer has fired.
ProcessQueueResume ==
    /\ isProcessingQueue
    /\ LET pq == IF Len(waitingQueue) > 0
                 THEN ProcessQueue(waitingQueue, FALSE, sockets)
                 ELSE [queue |-> waitingQueue, busy |-> FALSE, sent |-> <<>>]
       IN /\ waitingQueue' = pq.queue
          /\ isProcessingQueue' = pq.busy
          /\ ObserveJoin("processQueue", 0, NoArg, pq.sent)
    /\ UNCHANGED <<sockets, accepted, players>>

NextJoin ==
    \/ \E c \in ConnId :
        \/ Accept(c)
        \/ JoinQueue(c)
        \/ LeaveQueue(c)
        \/ DisconnectJoin(c)
    \/ ProcessQueueResume

SpecJoin == Init /\ [][NextJoin]_vars

----------------------------------------------------------------------------
\* The Spawn Store and the coordinator's spawn-point handlers.  The clients
\* (MapEditor.tsx, part_007) emit updateSpawnPoint and requestSpawnPoint and
\* listen for spawnPointUpdated; the server side is modelled from spec.md,
\* sections 4.2, 6 and 9.  The connect and disconnect handlers are those of
\* the event-driven server; spawn and move do not touch the store.

\* set() writes one JSON object {"x": .., "y": .., "z": ..}.
EncodeSpawn(p) ==
    [kind |-> "json",
     fields |-> << [key |-> "x", value |-> p.x],
                   [key |-> "y", value |-> p.y],
                   [key |-> "z", value |-> p.z] >>]

\* The keys of a JSON object.
KeysOf(fields) == {fields[i].key : i \in 1..Len(fields)}

\* The value under a key of a JSON object.
FieldOf(fields, key) ==
    fields[CHOOSE i \in 1..Len(fields) : fields[i].key = key].value

\* load(): the SpawnPoint in the file; the default when there is no file or
\* it is not an object with x, y and z.
LoadSpawn(file) ==
    IF file.kind = "json" /\ {"x", "y", "z"} \subseteq KeysOf(file.fields)
    THEN [x |-> FieldOf(file.fields, "x"),
          y |-> FieldOf(file.fields, "y"),
          z |-> FieldOf(file.fields, "z")]
    ELSE DefaultSpawn

\* What a handler of the spawn-point server leaves behind.
ObserveStore(op, c, arg, evs, ran) ==
    /\ Observe(op, c, arg, evs, ran)
    /\ UNCHANGED <<running, waitingQueue, isProcessingQueue, timers, grantEntry>>

\* On connect: enqueue, queueUpdate, tryAdmit, and the current spawn point
\* (spawnPointUpdated is sent on connect, after loginAllowed in S1).
StoreConnection(c) ==
    /\ c = accepted + 1
    /\ LET socks == sockets \cup {c}
           q1 == Append(loginQueue, c)
           mq == ManageQueue(players, q1, socks)
       IN /\ sockets' = socks
          /\ accepted' = c
          /\ loginQueue' = mq.queue
          /\ ObserveStore("connection", c, NoArg,
                          Emit(socks, c, "queueUpdate", Len(q1)) \o mq.sent
                          \o Emit(socks, c, "spawnPointUpdated", spawnPoint), mq.ran)
    /\ UNCHANGED <<players, spawnStore>>

\* An updateSpawnPoint whose set() skips the file.
UpdateSpawnPointMemoryOnly(c, vec, writeOk) ==
    /\ c \in sockets
    /\ spawnPoint' = vec
    /\ spawnFile' = spawnFile
    /\ ObserveStore("updateSpawnPoint", c, [vec |-> vec, wrote |-> writeOk],
                    BroadcastAll(sockets, "spawnPointUpdated", vec), FALSE)
    /\ UNCHANGED <<sockets, accepted, players, loginQueue>>

\* An updateSpawnPoint that answers the sender alone.
UpdateSpawnPointReplyOnly(c, vec, writeOk) ==
    /\ c \in sockets
    /\ spawnPoint' = vec
    /\ spawnFile' = IF writeOk THEN EncodeSpawn(vec) ELSE spawnFile
    /\ ObserveStore("updateSpawnPoint", c, [vec |-> vec, wrote |-> writeOk],
                    Emit(sockets, c, "spawnPointUpdated", vec), FALSE)
    /\ UNCHANGED <<sockets, accepted, players, loginQueue>>

\* An updateSpawnPoint that gives up when the file cannot be written.
UpdateSpawnPointAbortOnIoError(c, vec, writeOk) ==
    /\ c \in sockets
    /\ spawnPoint' = IF writeOk THEN vec ELSE spawnPoint
    /\ spawnFile' = IF writeOk THEN EncodeSpawn(vec) ELSE spawnFile
    /\ ObserveStore("updateSpawnPoint", c, [vec |-> vec, wrote |-> writeOk],
                    IF writeOk THEN BroadcastAll(sockets, "spawnPointUpdated", vec)
                    ELSE <<>>, FALSE)
    /\ UNCHANGED <<sockets, accepted, players, loginQueue>>

\* On client updateSpawnPoint(vec): SpawnStore.set(vec), then
\* broadcast(spawnPointUpdated, vec).  set updates the value in memory and
\* writes the file through a temporary file and a rename, so a write that
\* fails leaves the old file; the failure is logged and nothing else.
UpdateSpawnPoint(c, vec, writeOk) ==
    /\ c \in sockets
    /\ spawnPoint' = vec
    /\ spawnFile' = IF writeOk THEN EncodeSpawn(vec) ELSE spawnFile
    /\ ObserveStore("updateSpawnPoint", c, [vec |-> vec, wrote |-> writeOk],
                    BroadcastAll(sockets, "spawnPointUpdated", vec), FALSE)
    /\ UNCHANGED <<sockets, accepted, players, loginQueue>>

\* On client requestSpawnPoint(): reply with SpawnStore.get().
RequestSpawnPoint(c) ==
    /\ c \in sockets
    /\ ObserveStore("requestSpawnPoint", c, NoArg,
                    Emit(sockets, c, "spawnPointUpdated", spawnPoint), FALSE)
    /\ UNCHANGED <<sockets, accepted, players, loginQueue, spawnStore>>

\* The process restarts: every connection is gone, table and queue are those
\* of a fresh process, and load() reads the spawn file.
Restart ==
    /\ sockets' = {}
    /\ players' = <<>>
    /\ loginQueue' = <<>>
    /\ spawnPoint' = LoadSpawn(spawnFile)
    /\ ObserveStore("restart", 0, NoArg, <<>>, FALSE)
    /\ UNCHANGED <<accepted, spawnFile>>

NextStore ==
    \/ \E c \in ConnId :
        \/ StoreConnection(c)
        \/ \E vec \in SpawnEdits, writeOk \in BOOLEAN : UpdateSpawnPoint(c, vec, writeOk)
        \/ RequestSpawnPoint(c)
        \/ Disconnect(c)
    \/ Restart

SpecStore == Init /\ [][NextStore]_vars

----------------------------------------------------------------------------
\* The event-driven server with clients that follow the protocol of App.tsx:
\* a client emits spawn once, one second after it has received loginAllowed.

\* onLoginAllowed: setTimeout(() => socket.emit('spawn'), 1000)
ClientSpawn(c, randomX, randomZ, color) ==
    /\ c \in loginAllowed
    /\ c \notin DOMAIN players
    /\ Spawn(c, randomX, randomZ, color)

NextProtocol ==
    \E c \in ConnId :
        \/ Connection(c)
        \/ \E draw \in RandomDraws : ClientSpawn(c, draw.x, draw.z, draw.color)
        \/ \E pose \in MovePoses : Move(c, pose)
        \/ \E callback \in Callbacks : PingSync(c, callback)
        \/ Disconnect(c)

SpecProtocol == Init /\ [][NextProtocol]_vars

----------------------------------------------------------------------------
\* The timer server (server.js): connections enter loginQueue, and a
\* setInterval timer started by processQueue admits its head every 1.5 s.
\* Its move and pingSync handlers are those of Move and PingSyncUnchecked.

\* What a handler of the timer server leaves behind.
ObserveTimer(op, c, arg, evs, ran) ==
    /\ Observe(op, c, arg, evs, ran)
    /\ UNCHANGED <<running, waitingQueue, grantEntry, spawnStore>>

\* processQueue up to setInterval: the guard, the flag and the new timer.
StartInterval(busy, active) ==
    IF busy THEN [busy |-> busy, timers |-> active, started |-> FALSE]
    ELSE [busy |-> TRUE, timers |-> active + 1, started |-> TRUE]

\* io.on('connection', (socket) => ...) of server.js, up to line 62.
TimerConnection(c) ==
    /\ c = accepted + 1
    /\ LET socks == sockets \cup {c}
           q1 == Append(loginQueue, c)
           pq == IF ~isProcessingQueue
                 THEN StartInterval(isProcessingQueue, timers)
                 ELSE [busy |-> isProcessingQueue, timers |-> timers, started |-> FALSE]
       IN /\ sockets' = socks
          /\ accepted' = c
          /\ loginQueue' = q1
          /\ isProcessingQueue' = pq.busy
          /\ timers' = pq.timers
          /\ ObserveTimer("connection", c, NoArg,
                          Emit(socks, c, "queueUpdate", Len(q1)), pq.started)
    /\ UNCHANGED players

\* The interval callback that clears the flag on an empty queue but leaves
\* its interval running.
IntervalTickKeepInterval ==
    /\ timers > 0
    /\ IF Len(loginQueue) > 0
       THEN LET socketId == Head(loginQueue)
                rest == Tail(loginQueue)
            IN /\ loginQueue' = rest
               /\ ObserveTimer("tick", 0, NoArg,
                               Emit(sockets, socketId, "loginAllowed", 0)
                               \o NotifyPositions(rest, 1, sockets), TRUE)
               /\ UNCHANGED <<isProcessingQueue, timers>>
       ELSE /\ isProcessingQueue' = FALSE
            /\ ObserveTimer("tick", 0, NoArg, <<>>, FALSE)
            /\ UNCHANGED <<loginQueue, timers>>
    /\ UNCHANGED <<sockets, accepted, players>>

\* The interval callback that stops as soon as its shift empties the queue.
IntervalTickStopEarly ==
    /\ timers > 0
    /\ IF Len(loginQueue) > 0
       THEN LET socketId == Head(loginQueue)
                rest == Tail(loginQueue)
            IN /\ loginQueue' = rest
               /\ ObserveTimer("tick", 0, NoArg,
                               Emit(sockets, socketId, "loginAllowed", 0)
                               \o NotifyPositions(rest, 1, sockets), TRUE)
               /\ timers' = IF Len(rest) = 0 THEN timers - 1 ELSE timers
               /\ UNCHANGED isProcessingQueue
       ELSE /\ timers' = timers - 1
            /\ isProcessingQueue' = FALSE
            /\ ObserveTimer("tick", 0, NoArg, <<>>, FALSE)
            /\ UNCHANGED loginQueue
    /\ UNCHANGED <<sockets, accepted, players>>

\* One firing of an active interval: the callback of setInterval.
IntervalTick ==
    /\ timers > 0
    /\ IF Len(loginQueue) > 0
       THEN LET socketId == Head(loginQueue)
                rest == Tail(loginQueue)
            IN /\ loginQueue' = rest
               /\ ObserveTimer("tick", 0, NoArg,
                               Emit(sockets, socketId, "loginAllowed", 0)
                               \o NotifyPositions(rest, 1, sockets), TRUE)
               /\ UNCHANGED <<isProcessingQueue, timers>>
       ELSE /\ timers' = timers - 1
            /\ isProcessingQueue' = FALSE
            /\ ObserveTimer("tick", 0, NoArg, <<>>, FALSE)
            /\ UNCHANGED loginQueue
    /\ UNCHANGED <<sockets, accepted, players>>

\* socket.on('spawn', () => ...) of server.js: no queue step follows.
TimerSpawn(c, randomX, randomZ, color) ==
    /\ c \in sockets
    /\ LET pl == [k \in DOMAIN players \cup {c} |->
                    IF k = c THEN NewPlayer(c, randomX, randomZ, color)
                    ELSE players[k]]
       IN /\ players' = pl
          /\ ObserveTimer("spawn", c, NoArg, SpawnEvents(sockets, c, pl), FALSE)
    /\ UNCHANGED <<sockets, accepted, loginQueue, isProcessingQueue, timers>>

\* socket.on('disconnect', () => ...) of server.js.
TimerDisconnect(c) ==
    /\ c \in sockets
    /\ LET socks == sockets \ {c}
           qIndex == IndexOf(loginQueue, c)
           q1 == IF qIndex # 0 THEN Splice(loginQueue, qIndex) ELSE loginQueue
           present == c \in DOMAIN players
           pl == IF present THEN DeletePlayer(players, c) ELSE players
           gone == IF present THEN BroadcastAll(socks, "playerDisconnected", c)
                   ELSE <<>>
       IN /\ sockets' = socks
          /\ players' = pl
          /\ loginQueue' = q1
          /\ ObserveTimer("disconnect", c, NoArg, gone, FALSE)
    /\ UNCHANGED <<accepted, isProcessingQueue, timers>>

NextTimer ==
    \/ \E c \in ConnId :
        \/ running /\ TimerConnection(c)
        \/ running /\ \E draw \in RandomDraws : TimerSpawn(c, draw.x, draw.z, draw.color)
        \/ running /\ \E pose \in MovePoses : Move(c, pose)
        \/ running /\ \E callback \in Callbacks : PingSyncUnchecked(c, callback)
        \/ running /\ TimerDisconnect(c)
    \/ running /\ IntervalTick

SpecTimer == Init /\ [][NextTimer]_vars

\* The timer server with its interval firing as long as it is active.
FairSpecTimer == SpecTimer /\ WF_vars(running /\ IntervalTick)

----------------------------------------------------------------------------
\* Properties of the event-driven server (part_015), checked under Spec

PlayerCount(pl) == Cardinality(DOMAIN pl)

\* The events of the last handler with the given name, as a set of indices.
SentNamed(name) == {j \in 1..Len(sent) : sent[j].name = name}

\* The last handler emitted event `name` to connection `to`.
SentTo(to, name) == \E j \in SentNamed(name) : sent[j].to = to

\* C1 - Cap: the player table never holds more than MAX_PLAYERS entries.
\* The spawn handler inserts without consulting the cap or the admission, so
\* the code violates it.
C1_Cap == PlayerCount(players) <= MAX_PLAYERS

\* C2 - FIFO admission: of two live connections, the one whose connection
\* handler ran later (the larger id) has been sent loginAllowed only if the
\* earlier one has; and within one handler loginAllowed events are emitted
\* in connection order.
C2_FifoAdmission ==
    /\ \A a \in sockets, b \in sockets :
           (a < b /\ b \in loginAllowed) => a \in loginAllowed
    /\ \A i \in SentNamed("loginAllowed"), j \in SentNamed("loginAllowed") :
           i < j => sent[i].to < sent[j].to

\* C2 witness: a disconnect admitted the head of the queue while a later
\* connection keeps waiting behind it.
C2_Witness ==
    /\ last.op = "disconnect"
    /\ \E a \in sockets, b \in sockets :
           /\ a < b
           /\ a \in Range(pre.loginQueue) /\ SentTo(a, "loginAllowed")
           /\ b \in Range(loginQueue) /\ b \notin loginAllowed

\* C3 - Disjoint state: no id is in the admission queue and in the player
\* table at the same time.  A spawn from a queued session breaks it.
C3_DisjointState ==
    \A c \in ConnId : ~(c \in Range(loginQueue) /\ c \in DOMAIN players)

\* C4 - No ghost players: every key of the player table is a live connection.
C4_NoGhostPlayers == DOMAIN players \subseteq sockets

\* C4 witness: a connection with a table entry has disconnected while
\* another player stays in the table.
C4_Witness ==
    /\ last.op = "disconnect"
    /\ last.id \in DOMAIN pre.players
    /\ DOMAIN players # {}

\* C5 - a spawn from a session that has not been sent loginAllowed is
\* ignored: table and queue unchanged, no currentPlayers or newPlayer event.
C5_SpawnNotAdmittedIgnored ==
    (last.op = "spawn" /\ last.id \notin loginAllowed) =>
        /\ players = pre.players
        /\ loginQueue = pre.loginQueue
        /\ SentNamed("currentPlayers") = {}
        /\ SentNamed("newPlayer") = {}

\* C6 - a spawn from a session that already has a table entry is ignored:
\* the Player is unchanged, no second currentPlayers or newPlayer event.
C6_SecondSpawnIgnored ==
    (last.op = "spawn" /\ last.id \in DOMAIN pre.players) =>
        /\ players[last.id] = pre.players[last.id]
        /\ SentNamed("currentPlayers") = {}
        /\ SentNamed("newPlayer") = {}

\* C7 - Queue positions: right after manageQueue has sent its position
\* updates, the last queueUpdate emitted to every queued session is its
\* 1-based index in the queue.
C7_QueuePositions ==
    last.ran => \A i \in 1..Len(loginQueue) : queueUpdate[loginQueue[i]] = i

\* C7 witness: manageQueue admitted someone and left a session waiting.
C7_Witness ==
    /\ last.ran
    /\ Len(loginQueue) > 0
    /\ SentNamed("queueUpdate") # {}

\* C8 - when a queued session disconnects it leaves the queue, the sessions
\* behind it keep their order, and the handler sends every session still
\* queued a queueUpdate with its new 1-based index, whatever the occupancy
\* of the table.  With a full table manageQueue sends nothing.
C8_QueuedDisconnectNotifies ==
    (last.op = "disconnect" /\ last.id \in Range(pre.loginQueue)) =>
        /\ last.id \notin Range(loginQueue)
        /\ \E k \in 0..Len(pre.loginQueue) :
               loginQueue = SubSeq(Splice(pre.loginQueue, IndexOf(pre.loginQueue, last.id)),
                                   k + 1, Len(pre.loginQueue) - 1)
        /\ \A i \in 1..Len(loginQueue) :
               \E j \in SentNamed("queueUpdate") :
                   sent[j].to = loginQueue[i] /\ sent[j].arg = i

\* C9 - Admission at exactly MAX_PLAYERS: a connection accepted while the
\* table holds exactly MAX_PLAYERS entries and the queue is empty is sent
\* queueUpdate(1) and nothing else, and stays queued; and while the table is
\* full only a disconnect handler lowers the occupancy or takes a waiting
\* session out of the queue, so no loginAllowed reaches it before a
\* disconnect has been handled.
C9_AtCapConnect ==
    (/\ last.op = "connection"
     /\ PlayerCount(pre.players) = MAX_PLAYERS
     /\ pre.loginQueue = <<>>) =>
        /\ sent = <<Event(last.id, "queueUpdate", 1)>>
        /\ loginQueue = <<last.id>>
        /\ last.id \notin loginAllowed

C9_WaitsForDisconnect ==
    (PlayerCount(players) >= MAX_PLAYERS /\ last'.op # "disconnect") =>
        /\ PlayerCount(players') >= MAX_PLAYERS
        /\ \A c \in Range(loginQueue) :
               c \notin loginAllowed => (c \in Range(loginQueue') /\ c \notin loginAllowed')

C9_AdmissionAtCap == [](C9_AtCapConnect) /\ [][C9_WaitsForDisconnect]_vars

\* C9 witness: a connection was accepted at exactly MAX_PLAYERS with an
\* empty queue.
C9_Witness ==
    /\ last.op = "connection"
    /\ PlayerCount(pre.players) = MAX_PLAYERS
    /\ pre.loginQueue = <<>>
    /\ last.id \in Range(loginQueue)

\* C10 - when an admitted player (sent loginAllowed, present in the table)
\* disconnects while the table holds MAX_PLAYERS entries and the queue is
\* non-empty, the head of the queue is sent loginAllowed by that handler and
\* leaves the queue.
C10_DisconnectAdmitsHead ==
    (/\ last.op = "disconnect"
     /\ last.id \in DOMAIN pre.players
     /\ last.id \in loginAllowed
     /\ PlayerCount(pre.players) = MAX_PLAYERS
     /\ pre.loginQueue # <<>>) =>
        /\ SentTo(Head(pre.loginQueue), "loginAllowed")
        /\ Head(pre.loginQueue) \notin Range(loginQueue)

\* C10 witness: such a disconnect has been handled.
C10_Witness ==
    /\ last.op = "disconnect"
    /\ last.id \in DOMAIN pre.players
    /\ last.id \in loginAllowed
    /\ PlayerCount(pre.players) = MAX_PLAYERS
    /\ pre.loginQueue # <<>>
    /\ Head(pre.loginQueue) \in loginAllowed

----------------------------------------------------------------------------
\* Properties C11 - C20

\* The number of events of the last handler with the given name and recipient.
SentCount(to, name) == Cardinality({j \in SentNamed(name) : sent[j].to = to})

\* C11 - a session is admitted at most once and never goes back: it is sent
\* the admission event (loginAllowed, grantEntry) at most once, and once
\* admission has taken its id out of the queue the id is not in the queue
\* again.  The joinQueue handler only tests that the id is not queued now,
\* so an admitted session that asks again is queued and admitted again.
C11_AdmittedOnce ==
    \A c \in ConnId :
        /\ c \in loginAllowed => c \notin Range(loginQueue)
        /\ grantEntry[c] <= 1
        /\ grantEntry[c] >= 1 => c \notin Range(waitingQueue)

\* C12 - Disconnect while queued: the handler of the disconnect of a queued
\* session takes its id out of the queue, addresses no event to it and
\* broadcasts no playerDisconnected carrying it; and no id of a closed
\* connection is queued or addressed afterwards.  The joinQueue server
\* broadcasts playerDisconnected on every disconnect.
C12_QueuedDisconnectSilent ==
    /\ \A c \in (1..accepted) \ sockets :
           /\ c \notin Range(loginQueue) \cup Range(waitingQueue)
           /\ \A j \in 1..Len(sent) : sent[j].to # c
    /\ (last.op = "disconnect"
        /\ last.id \in Range(pre.loginQueue) \cup Range(pre.waitingQueue)) =>
           \A j \in SentNamed("playerDisconnected") : sent[j].arg # last.id

\* C13 - Movement fan-out: a move from a session with a table entry sends
\* every other live connection exactly one playerMoved carrying the sender's
\* id and the sent position, rotation and animation; the sender gets none,
\* and nothing else is emitted.
C13_MoveFanOut ==
    (last.op = "move" /\ last.id \in DOMAIN pre.players) =>
        /\ \A r \in sockets \ {last.id} : SentCount(r, "playerMoved") = 1
        /\ \A j \in 1..Len(sent) :
               /\ sent[j].name = "playerMoved"
               /\ sent[j].to \in sockets \ {last.id}
               /\ sent[j].arg.id = last.id
               /\ sent[j].arg.position = last.arg.position
               /\ sent[j].arg.rotation = last.arg.rotation
               /\ sent[j].arg.animation = last.arg.animation

\* C13 witness: a player moved to an S4 pose while two other connections
\* were live.
C13_Witness ==
    /\ last.op = "move"
    /\ last.id \in DOMAIN pre.players
    /\ last.arg.rotation = 157
    /\ Cardinality(sockets \ {last.id}) >= 2
    /\ Len(sent) = 2

\* C14 - move before spawn: a move from a connection without a table entry
\* emits nothing, creates no Player and leaves table and queue as they were.
C14_MoveBeforeSpawnDropped ==
    (last.op = "move" /\ last.id \notin DOMAIN pre.players) =>
        /\ sent = <<>>
        /\ players = pre.players
        /\ loginQueue = pre.loginQueue

\* C14 witness: an admitted session moved before it spawned, with another
\* player in the table to hear of it.
C14_Witness ==
    /\ last.op = "move"
    /\ last.id \notin DOMAIN pre.players
    /\ last.id \in loginAllowed
    /\ sockets \ {last.id} # {}

\* C15 - an accepted spawn (from a session sent loginAllowed and without a
\* table entry) emits currentPlayers to the spawning connection first and
\* then newPlayer, carrying the new Player, once to every other live
\* connection and never to the spawning connection.
C15_SpawnEvents ==
    (last.op = "spawn" /\ last.id \in loginAllowed /\ last.id \notin DOMAIN pre.players) =>
        /\ Len(sent) >= 1
        /\ sent[1].name = "currentPlayers" /\ sent[1].to = last.id
        /\ SentNamed("currentPlayers") = {1}
        /\ \A r \in sockets \ {last.id} : SentCount(r, "newPlayer") = 1
        /\ \A j \in SentNamed("newPlayer") :
               /\ j > 1
               /\ sent[j].to # last.id
               /\ sent[j].arg = players[last.id]

\* C15 witness: an accepted spawn with another live connection.
C15_Witness ==
    /\ last.op = "spawn"
    /\ last.id \in loginAllowed
    /\ last.id \notin DOMAIN pre.players
    /\ SentNamed("newPlayer") # {}

\* C16 - the currentPlayers map sent to a spawning session holds exactly the
\* players that were in the table before this spawn (empty for the first
\* player, without the spawning session's own entry).  The handler enters
\* the new Player first and emits the table afterwards.
C16_CurrentPlayersBeforeSpawn ==
    last.op = "spawn" =>
        \A j \in SentNamed("currentPlayers") : sent[j].arg = pre.players

\* C17 - when a connection with a table entry disconnects, every remaining
\* live connection is sent exactly one playerDisconnected carrying its id,
\* its entry is gone, and the queue is what it was, less the sessions at its
\* head that the freed slot admitted.  A session that spawned while queued
\* leaves the queue without being admitted.
C17_PlayerDisconnect ==
    (last.op = "disconnect" /\ last.id \in DOMAIN pre.players) =>
        /\ \A r \in sockets : SentCount(r, "playerDisconnected") = 1
        /\ \A j \in SentNamed("playerDisconnected") : sent[j].arg = last.id
        /\ last.id \notin DOMAIN players
        /\ \E k \in 0..Len(pre.loginQueue) :
               /\ loginQueue = SubSeq(pre.loginQueue, k + 1, Len(pre.loginQueue))
               /\ \A i \in 1..k : SentTo(pre.loginQueue[i], "loginAllowed")

\* C18 - a pingSync whose argument is no function is ignored: the process
\* keeps running, no connection is lost, nothing is emitted, table and queue
\* are unchanged.  The handler of part_016 calls the argument regardless.
C18_MalformedPingIgnored ==
    (last.op = "pingSync" /\ last.arg.callback # "function") =>
        /\ running
        /\ last.id \in sockets
        /\ sent = <<>>
        /\ players = pre.players
        /\ loginQueue = pre.loginQueue

\* C19 - a move whose position is no Vec3, from a session with a table
\* entry, is ignored: its Player is unchanged and no playerMoved is emitted.
\* The handler stores and rebroadcasts whatever it is given.
C19_MalformedMoveIgnored ==
    (/\ last.op = "move"
     /\ last.id \in DOMAIN pre.players
     /\ ~IsVec3(last.arg.position)) =>
        /\ IsVec3(players[last.id].position)
        /\ players[last.id].rotation = pre.players[last.id].rotation
        /\ players[last.id].animation = pre.players[last.id].animation
        /\ SentNamed("playerMoved") = {}

\* C20 - pingSync with an ack callback: the handler invokes the ack exactly
\* once, emits nothing else and leaves table and queue unchanged, for queued
\* and admitted connections alike.
C20_PingSyncAck ==
    (last.op = "pingSync" /\ last.arg.callback = "function") =>
        /\ sent = <<Event(last.id, "ack", 0)>>
        /\ players = pre.players
        /\ loginQueue = pre.loginQueue

\* C20 witness: a queued connection pinged with an ack while another
\* connection is in the table.
C20_Witness ==
    /\ last.op = "pingSync"
    /\ last.arg.callback = "function"
    /\ last.id \in Range(loginQueue)
    /\ DOMAIN players # {}

----------------------------------------------------------------------------
\* Properties C21 - C30

\* The pose fields of a Player, as a move carries them.
PoseOf(player) ==
    [position |-> player.position, rotation |-> player.rotation,
     animation |-> player.animation]

\* C21 - Move idempotence: when a session with a table entry sends the same
\* move twice in a row, the second handler leaves the player table as the
\* first left it and emits the same playerMoved events to the same
\* recipients, so Player record and recipients' views are those of one move.
C21_MoveIdempotent ==
    [][(/\ last.op = "move"
        /\ last.id \in DOMAIN pre.players
        /\ last'.op = "move"
        /\ last'.id = last.id
        /\ last'.arg = last.arg) =>
           /\ players' = players
           /\ sent' = sent]_vars

\* C21 witness: a move that repeats the pose the player already has from an
\* earlier move (157 is no spawn rotation), with someone to hear of it.
C21_Witness ==
    /\ last.op = "move"
    /\ last.id \in DOMAIN pre.players
    /\ PoseOf(pre.players[last.id]) = last.arg
    /\ last.arg.rotation = 157
    /\ SentNamed("playerMoved") # {}

\* C22 - on connect the id is appended to the queue and the first event of
\* the handler is queueUpdate to the new connection with the queue length
\* after the append; a loginAllowed to it comes later in the same handler.
C22_ConnectQueueUpdateFirst ==
    last.op = "connection" =>
        LET q1 == Append(pre.loginQueue, last.id)
        IN /\ Len(sent) >= 1
           /\ sent[1] = Event(last.id, "queueUpdate", Len(q1))
           /\ \A j \in SentNamed("loginAllowed") : sent[j].to = last.id => j > 1
           /\ \E k \in 0..Len(q1) : loginQueue = SubSeq(q1, k + 1, Len(q1))
           /\ last.id \in Range(loginQueue) \/ SentTo(last.id, "loginAllowed")

\* C22 witness: a connection admitted at once, after an earlier one.
C22_Witness ==
    /\ last.op = "connection"
    /\ last.id >= 2
    /\ sent[1].name = "queueUpdate"
    /\ SentTo(last.id, "loginAllowed")

C25_PersistenceFailure ==
    (last.op = "updateSpawnPoint" /\ ~last.arg.wrote) =>
        /\ spawnPoint = last.arg.vec
        /\ \A r \in sockets :
               \E j \in SentNamed("spawnPointUpdated") :
                   sent[j].to = r /\ sent[j].arg = last.arg.vec
        /\ running
        /\ last.id \in sockets

\* C25 witness: a failed write that left the file with an older edit.
C25_Witness ==
    /\ last.op = "updateSpawnPoint"
    /\ ~last.arg.wrote
    /\ spawnFile.kind = "json"
    /\ LoadSpawn(spawnFile) # spawnPoint

\* No element of the sequence occurs at two indices.
NoDuplicates(q) == \A i, j \in 1..Len(q) : i # j => q[i] # q[j]

\* C26 - the admission queue never holds an id twice, and a joinQueue from
\* a session whose id is already queued leaves the queue as it was.
C26_QueueNoDuplicates ==
    /\ NoDuplicates(waitingQueue)
    /\ NoDuplicates(loginQueue)
    /\ (last.op = "joinQueue" /\ last.id \in Range(pre.waitingQueue)) =>
           waitingQueue = pre.waitingQueue

\* C26 witness: a queued session asked to join again while another session
\* was queued too.
C26_Witness ==
    /\ last.op = "joinQueue"
    /\ last.id \in Range(pre.waitingQueue)
    /\ Len(waitingQueue) >= 2

Min(a, b) == IF a <= b THEN a ELSE b

Max(a, b) == IF a >= b THEN a ELSE b

\* The queue as the last handler handed it to manageQueue: with the new id
\* appended by connection, with the leaving id spliced out by disconnect.
QueueAtDrain ==
    IF last.op = "connection" THEN Append(pre.loginQueue, last.id)
    ELSE IF last.op = "disconnect"
         THEN SelectSeq(pre.loginQueue, LAMBDA id : id # last.id)
         ELSE pre.loginQueue

\* The recipients of the loginAllowed events of the last handler, in order.
AdmittedInOrder ==
    LET evs == SelectSeq(sent, LAMBDA e : e.name = "loginAllowed")
    IN [i \in 1..Len(evs) |-> evs[i].to]

\* C27 - drain_to_capacity: the run of manageQueue at the end of a
\* connection, spawn or disconnect handler, with current = |players| and a
\* queue of length n, takes min(n, max(0, MAX_PLAYERS - current)) ids from
\* the head, admits them in that order, and leaves the rest in order.
C27_DrainToCapacity ==
    last.op \in {"connection", "spawn", "disconnect"} =>
        LET q == QueueAtDrain
            n == Len(q)
            k == Min(n, Max(0, MAX_PLAYERS - PlayerCount(players)))
        IN /\ loginQueue = SubSeq(q, k + 1, n)
           /\ AdmittedInOrder = SubSeq(q, 1, k)

\* C27 witness: a disconnect freed a slot with two sessions queued; the head
\* was taken and the other stayed.
C27_Witness ==
    /\ last.op = "disconnect"
    /\ Len(QueueAtDrain) >= 2
    /\ Len(QueueAtDrain) = Len(pre.loginQueue)
    /\ AdmittedInOrder = <<Head(QueueAtDrain)>>
    /\ loginQueue = Tail(QueueAtDrain)

\* The live sessions that have been sent loginAllowed, spawned or not.
AdmittedSessions == loginAllowed \cap sockets

\* C28 - with clients that spawn once and only after loginAllowed, the
\* number of live sessions that have been sent loginAllowed never exceeds
\* MAX_PLAYERS.  manageQueue counts the table entries only, so sessions that
\* are admitted but have not spawned yet do not count against the cap.
C28_AdmittedWithinCap == Cardinality(AdmittedSessions) <= MAX_PLAYERS

\* C29 - every queued id belongs to a live connection that has not been
\* sent loginAllowed, and the queue manageQueue works on at the end of a
\* handler holds live ids only, so every id it pops is alive.
C29_QueuedLiveNotAdmitted ==
    /\ Range(loginQueue) \subseteq sockets \ loginAllowed
    /\ last.op \in {"connection", "spawn", "disconnect"} =>
           /\ Range(QueueAtDrain) \subseteq sockets
           /\ Range(QueueAtDrain) \ Range(loginQueue) \subseteq AdmittedSessions

\* C29 witness: a queued session disconnected and left another one queued.
C29_Witness ==
    /\ last.op = "disconnect"
    /\ last.id \in Range(pre.loginQueue)
    /\ loginQueue # <<>>

\* C30 - No idle slot: after a connection, spawn or disconnect handler the
\* queue is never non-empty while the player table holds fewer than
\* MAX_PLAYERS entries.  A slot given to a session that has not spawned yet
\* is no table entry; and a queued session that spawned is later shifted out
\* of the queue in place of a waiting one, which leaves a slot free.
C30_NoIdleSlot ==
    last.op \in {"connection", "spawn", "disconnect"} =>
        ~(loginQueue # <<>> /\ PlayerCount(players) < MAX_PLAYERS)

----------------------------------------------------------------------------
\* Properties C31 - C34

\* C31 - frame of move: a move from session s changes at most the position,
\* rotation and animation of s's own Player, and sets them to the pose sent;
\* s's id and color, every other player's record, the key set of the player
\* table and the admission queue stay as they were, and manageQueue does not
\* run (no loginAllowed and no queueUpdate is emitted).
C31_MoveFrame ==
    last.op = "move" =>
        /\ DOMAIN players = DOMAIN pre.players
        /\ \A k \in DOMAIN players \ {last.id} : players[k] = pre.players[k]
        /\ last.id \in DOMAIN players =>
               /\ players[last.id].id = pre.players[last.id].id
               /\ players[last.id].color = pre.players[last.id].color
               /\ PoseOf(players[last.id]) = last.arg
        /\ loginQueue = pre.loginQueue
        /\ ~last.ran
        /\ SentNamed("loginAllowed") = {}
        /\ SentNamed("queueUpdate") = {}

\* C31 witness: a player changed its pose by a move while another player was
\* in the table and a third connection waited in the queue.
C31_Witness ==
    /\ last.op = "move"
    /\ last.id \in DOMAIN pre.players
    /\ PoseOf(pre.players[last.id]) # last.arg
    /\ DOMAIN players \ {last.id} # {}
    /\ loginQueue # <<>>

\* C32 - a client of the queue-based App that was sent loginAllowed and then
\* spawned has, once the events of the spawn handler are delivered to it,
\* learned its own id: its myId is its connection id.
C32_HandshakeLearnsId ==
    (last.op = "spawn" /\ last.id \in loginAllowed /\ last.id \in sockets) =>
        myId[last.id] = last.id

\* C33 - in the timer server at most one interval timer is active at any
\* time: isProcessingQueue is true exactly while a timer is active, a
\* connect that arrives while it is true starts no second timer, a tick that
\* finds a session queued leaves the timer running, and the first tick that
\* finds the queue empty stops the timer and clears the flag.
C33_SingleTimer ==
    /\ [](timers <= 1 /\ (isProcessingQueue <=> timers = 1))
    /\ [][(last'.op = "connection" /\ isProcessingQueue) =>
              (timers' = timers /\ isProcessingQueue' /\ ~last'.ran)]_vars
    /\ [][(last'.op = "tick" /\ loginQueue # <<>>) =>
              (timers' = timers /\ isProcessingQueue')]_vars
    /\ [][(last'.op = "tick" /\ loginQueue = <<>>) =>
              (timers' = 0 /\ ~isProcessingQueue')]_vars

\* C33 witness: a connect arrived while the timer was active (it started
\* none) and found another session still queued.
C33_Witness ==
    /\ last.op = "connection"
    /\ ~last.ran
    /\ pre.loginQueue # <<>>
    /\ timers = 1
    /\ isProcessingQueue

\* C34 - under fair firing of the timer, every connection in the queue of
\* the timer server is eventually sent loginAllowed unless it disconnects,
\* also when it joined after the tick that emptied the queue and before the
\* tick that stops the timer.
C34_QueuedEventuallyAdmitted ==
    \A c \in ConnId :
        (c \in Range(loginQueue)) ~> (c \in loginAllowed \/ c \notin sockets)

\* C34 witness: a connection joined the empty queue of a timer that had not
\* stopped yet: its connect started no timer, and it waits for the next tick.
C34_Witness ==
    /\ last.op = "connection"
    /\ ~last.ran
    /\ pre.loginQueue = <<>>
    /\ loginQueue = <<last.id>>
    /\ last.id \notin loginAllowed
    /\ timers = 1

====
